---- MODULE Spec2Model ----
(***************************************************************************)
(* Model of dnszoneinfo.py: the script that reads a saved Namecheap        *)
(* "advanced DNS info" JSON document and prints zone-file lines.           *)
(*                                                                         *)
(* Python dicts are TLA+ functions whose DOMAIN is the set of keys that    *)
(* are present (the empty dict is <<>>), Python lists are sequences, and   *)
(* Python str values are TLA+ strings joined with \o.                      *)
(***************************************************************************)
EXTENDS Integers, Sequences, FiniteSets, TLC

VARIABLES filename, output_format, disk, dns_info, pc, pos, items, records,
          stdout, exc

vars == <<filename, output_format, disk, dns_info, pc, pos, items, records,
          stdout, exc>>

(***************************************************************************)
(* Bounds of the explored inputs.                                          *)
(***************************************************************************)
MaxRecords == 3

(***************************************************************************)
(* RECORD_TYPES, the table of provider codes.                              *)
(***************************************************************************)
RECORD_TYPES_Extra ==
    (1 :> "A") @@ (2 :> "CNAME") @@ (3 :> "MX") @@ (4 :> "SOA") @@ (5 :> "TXT") @@
    (8 :> "AAAA") @@ (9 :> "NS") @@ (10 :> "URL Redirect") @@
    (11 :> "SRV") @@ (12 :> "CAA") @@ (13 :> "ALIAS")

RECORD_TYPES ==
    (1 :> "A") @@ (2 :> "CNAME") @@ (3 :> "MX") @@ (5 :> "TXT") @@
    (8 :> "AAAA") @@ (9 :> "NS") @@ (10 :> "URL Redirect") @@
    (11 :> "SRV") @@ (12 :> "CAA") @@ (13 :> "ALIAS")

(***************************************************************************)
(* str(n) for an int: decimal digits, a leading '-' for negatives.         *)
(***************************************************************************)
Digit == <<"0", "1", "2", "3", "4", "5", "6", "7", "8", "9">>

RECURSIVE NatStr(_)
NatStr(n) == IF n < 10 THEN Digit[n + 1]
             ELSE NatStr(n \div 10) \o Digit[(n % 10) + 1]

IntStr(n) == IF n < 0 THEN "-" \o NatStr(-n) ELSE NatStr(n)

(***************************************************************************)
(* Exceptions: class, constructor argument, raising source line.           *)
(***************************************************************************)
NoExc == [cls |-> "None", arg |-> "", line |-> 0]

Raise(cls, arg, line) == [cls |-> cls, arg |-> arg, line |-> line]

\* The classes an exception of each raised class is an instance of.
\* IOError is an alias of OSError; JSONDecodeError derives from ValueError.
Mro ==
    [FileNotFoundError |-> {"FileNotFoundError", "OSError", "IOError", "Exception"},
     JSONDecodeError   |-> {"JSONDecodeError", "ValueError", "Exception"},
     KeyError          |-> {"KeyError", "LookupError", "Exception"},
     Exception         |-> {"Exception"}]

\* str(e): KeyError shows the repr of its argument, the others the argument.
ExcStr(e) == IF e.cls = "KeyError" THEN "'" \o e.arg \o "'" ELSE e.arg

\* The except clauses of the script's try statement, in textual order.
ExceptClauses == << {"IOError", "KeyError", "Exception"}, {"JSONDecodeError"} >>

\* Python runs the first clause that names a class of the exception.
SelectedClause(e) ==
    LET matching == {i \in 1..Len(ExceptClauses) : Mro[e.cls] \cap ExceptClauses[i] # {}}
    IN  CHOOSE i \in matching : \A j \in matching : i <= j

HandlerMessage(e, fname) ==
    IF SelectedClause(e) = 1
    THEN "ERROR: " \o ExcStr(e)
    ELSE "ERROR: Unable to decode JSON from " \o fname \o ": " \o ExcStr(e)

(***************************************************************************)
(* parse_dns_info, lines 67-75: the shape and emptiness checks.            *)
(***************************************************************************)
HasRecordsPath(info) ==
    /\ "Result" \in DOMAIN info
    /\ "CustomHostRecords" \in DOMAIN info.Result
    /\ "Records" \in DOMAIN info.Result.CustomHostRecords

RecordsOf(info) == info.Result.CustomHostRecords.Records

CheckShape_Lenient(info) ==
    IF ~HasRecordsPath(info)
    THEN Raise("Exception", "No DNS records found in JSON", 75)
    ELSE NoExc

CheckShape_NoEmptyTest(info) ==
    IF ~HasRecordsPath(info)
    THEN Raise("KeyError", "JSON is in an unexpected format", 72)
    ELSE NoExc

CheckShape(info) ==
    IF ~HasRecordsPath(info)
    THEN Raise("KeyError", "JSON is in an unexpected format", 72)
    ELSE IF Len(RecordsOf(info)) = 0
         THEN Raise("Exception", "No DNS records found in JSON", 75)
         ELSE NoExc

(***************************************************************************)
(* parse_dns_info, lines 78-108: the body of the loop for one record.      *)
(* A subscript of a missing key raises KeyError(key) at its line.          *)
(***************************************************************************)
Skip == [kind |-> "skip", item |-> <<>>, exc |-> NoExc]
Emit(item) == [kind |-> "emit", item |-> item, exc |-> NoExc]
Fail(key, line) == [kind |-> "raise", item |-> <<>>, exc |-> Raise("KeyError", key, line)]

ValueOf_Unquoted(record, record_type) ==
    IF record_type = "MX" THEN IntStr(record.Priority) \o " " \o record.Data
    ELSE record.Data

ValueOf(record, record_type) ==
    IF record_type = "MX" THEN IntStr(record.Priority) \o " " \o record.Data
    ELSE IF record_type = "TXT" THEN "\"" \o record.Data \o "\""
    ELSE record.Data

HostOf_ApexDotted(record, info, fmt) ==
    IF fmt = "cloudflare"
    THEN record.Host \o "." \o info.Result.DomainBasicDetails.DomainName \o "."
    ELSE record.Host

HostOf(record, info, fmt) ==
    IF fmt = "cloudflare"
    THEN LET domain == info.Result.DomainBasicDetails.DomainName
         IN  IF record.Host = "@" THEN domain
             ELSE record.Host \o "." \o domain \o "."
    ELSE record.Host

\* line 79: the test that skips an inactive record
SkipInactive_Inverted(record) == record.IsActive

SkipInactive(record) == ~record.IsActive

\* line 83: the test that skips a record of unknown type
SkipUnknown(record) == record.RecordType \notin DOMAIN RECORD_TYPES

\* line 96: the key whose subscript fails when the apex domain is read,
\* "" when the statement is not reached or succeeds
DomainKeyError_Hoisted(info, fmt) ==
    IF "DomainBasicDetails" \notin DOMAIN info.Result THEN "DomainBasicDetails"
    ELSE IF "DomainName" \notin DOMAIN info.Result.DomainBasicDetails THEN "DomainName"
    ELSE ""

DomainKeyError(info, fmt) ==
    IF fmt # "cloudflare" THEN ""
    ELSE IF "DomainBasicDetails" \notin DOMAIN info.Result THEN "DomainBasicDetails"
    ELSE IF "DomainName" \notin DOMAIN info.Result.DomainBasicDetails THEN "DomainName"
    ELSE ""

ProcessRecord(record, info, fmt) ==
    IF "IsActive" \notin DOMAIN record THEN Fail("IsActive", 79)
    ELSE IF SkipInactive(record) THEN Skip
    ELSE IF "RecordType" \notin DOMAIN record THEN Fail("RecordType", 83)
    ELSE IF SkipUnknown(record) THEN Skip
    ELSE IF "Data" \notin DOMAIN record THEN Fail("Data", 87)
    ELSE IF "Host" \notin DOMAIN record THEN Fail("Host", 88)
    ELSE LET record_type == RECORD_TYPES[record.RecordType] IN
         IF record_type = "MX" /\ "Priority" \notin DOMAIN record
         THEN Fail("Priority", 91)
         ELSE IF DomainKeyError(info, fmt) # "" THEN Fail(DomainKeyError(info, fmt), 96)
         ELSE IF "Ttl" \notin DOMAIN record THEN Fail("Ttl", 104)
         ELSE Emit(<< HostOf(record, info, fmt), IntStr(record.Ttl), "IN",
                      record_type, ValueOf(record, record_type) >>)

\* line 102: items.append(...)
AppendItem_Front(list, item) == <<item>> \o list

AppendItem(list, item) == Append(list, item)

(***************************************************************************)
(* parse_dns_info as a function of its arguments: the exception it raises  *)
(* (NoExc when it returns) and the items it returns.                       *)
(***************************************************************************)
RECURSIVE ParseLoop(_, _, _, _, _)
ParseLoop(recs, i, acc, info, fmt) ==
    IF i > Len(recs) THEN [exc |-> NoExc, items |-> acc]
    ELSE LET r == ProcessRecord(recs[i], info, fmt) IN
         IF r.kind = "raise" THEN [exc |-> r.exc, items |-> <<>>]
         ELSE IF r.kind = "emit" THEN ParseLoop(recs, i + 1, AppendItem(acc, r.item), info, fmt)
         ELSE ParseLoop(recs, i + 1, acc, info, fmt)

parse_dns_info(info, fmt) ==
    IF CheckShape(info) # NoExc THEN [exc |-> CheckShape(info), items |-> <<>>]
    ELSE ParseLoop(RecordsOf(info), 1, <<>>, info, fmt)

(***************************************************************************)
(* '\t'.join(record)                                                       *)
(***************************************************************************)
RECURSIVE Join(_, _)
Join(sep, fields) ==
    IF Len(fields) = 0 THEN ""
    ELSE IF Len(fields) = 1 THEN fields[1]
    ELSE fields[1] \o sep \o Join(sep, Tail(fields))

(***************************************************************************)
(* Inputs.                                                                 *)
(***************************************************************************)
Drop(f, k) == [x \in DOMAIN f \ {k} |-> f[x]]

Formats == {"default", "cloudflare"}
FileNames == {"data.json"}
Keys == {"IsActive", "RecordType", "Data", "Host", "Ttl", "Priority"}

\* Entries of one-record documents: every code around the table, every
\* field varied, and each key possibly missing.
WideFull ==
    [IsActive : BOOLEAN, RecordType : 0..14, Host : {"@", "www"},
     Data : {"a.b", "say \"hi\""}, Ttl : {60, 300}, Priority : {0, 10}]

WideEntries == WideFull \cup {Drop(e, k) : e \in WideFull, k \in Keys}

\* Entries of the longer documents: the active entries of three known
\* types and one unknown type, two inactive entries, an MX entry without
\* Priority and an entry without IsActive.
NarrowFull ==
    [IsActive : BOOLEAN, RecordType : {1, 3, 4, 5}, Host : {"@", "www"},
     Data : {"a.b"}, Ttl : {300}, Priority : {10}]

NarrowEntries ==
    {e \in NarrowFull : e.IsActive}
    \cup {e \in NarrowFull : ~e.IsActive /\ e.Host = "www" /\ e.RecordType \in {1, 4}}
    \cup {Drop(e, "Priority") :
            e \in {f \in NarrowFull : f.IsActive /\ f.Host = "www" /\ f.RecordType = 3}}
    \cup {Drop(e, "IsActive") :
            e \in {f \in NarrowFull : f.IsActive /\ f.Host = "www" /\ f.RecordType = 1}}

SeqsUpTo(S, n) == UNION {[1..k -> S] : k \in 0..n}

RecordLists == SeqsUpTo(NarrowEntries, MaxRecords) \cup SeqsUpTo(WideEntries, 1)

\* The DomainBasicDetails part of Result: absent, without DomainName, whole.
DomainParts ==
    { <<>>,
      [DomainBasicDetails |-> <<>>],
      [DomainBasicDetails |-> [DomainName |-> "example.com"]] }

Documents ==
    {<<>>}
    \cup {[Result |-> d] : d \in DomainParts}
    \cup {[Result |-> d @@ [CustomHostRecords |-> <<>>]] : d \in DomainParts}
    \cup {[Result |-> d @@ [CustomHostRecords |-> [Records |-> recs]]] :
            d \in DomainParts, recs \in RecordLists}

\* What open(filename) finds: no file, text that is not JSON, or the text
\* of a document (json.loads gives the document back).
NoFile == [exists |-> FALSE]
BadText == [exists |-> TRUE, valid |-> FALSE]
TextOf(doc) == [exists |-> TRUE, valid |-> TRUE, json |-> doc]

Disks == {NoFile, BadText} \cup {TextOf(doc) : doc \in Documents}

(***************************************************************************)
(* The script, lines 113-128.                                              *)
(***************************************************************************)
Init ==
    /\ filename \in FileNames
    /\ output_format \in Formats
    /\ disk \in Disks
    /\ dns_info = <<>>
    /\ pc = "open"
    /\ pos = 1
    /\ items = <<>>
    /\ records = <<>>
    /\ stdout = <<>>
    /\ exc = NoExc

\* line 118: open(filename, 'r')
OpenFile ==
    /\ pc = "open"
    /\ IF disk.exists
       THEN /\ pc' = "load"
            /\ exc' = exc
       ELSE /\ pc' = "except"
            /\ exc' = Raise("FileNotFoundError",
                            "[Errno 2] No such file or directory: '" \o filename \o "'", 118)
    /\ UNCHANGED <<filename, output_format, disk, dns_info, pos, items, records, stdout>>

\* lines 119-120: json.loads(file.read()); file.close()
LoadJson ==
    /\ pc = "load"
    /\ IF disk.valid
       THEN /\ dns_info' = disk.json
            /\ pc' = "parse"
            /\ exc' = exc
       ELSE /\ dns_info' = dns_info
            /\ pc' = "except"
            /\ exc' = Raise("JSONDecodeError",
                            "Expecting value: line 1 column 1 (char 0)", 119)
    /\ UNCHANGED <<filename, output_format, disk, pos, items, records, stdout>>

\* lines 65-75: parse_dns_info up to the loop
ParseBegin ==
    /\ pc = "parse"
    /\ items' = <<>>
    /\ pos' = 1
    /\ exc' = CheckShape(dns_info)
    /\ pc' = IF CheckShape(dns_info) = NoExc THEN "loop" ELSE "except"
    /\ UNCHANGED <<filename, output_format, disk, dns_info, records, stdout>>

\* lines 77-108: one iteration of the loop
ParseRecord_Streaming ==
    /\ pc = "loop"
    /\ pos <= Len(RecordsOf(dns_info))
    /\ LET r == ProcessRecord(RecordsOf(dns_info)[pos], dns_info, output_format) IN
         /\ items' = IF r.kind = "emit" THEN AppendItem(items, r.item) ELSE items
         /\ stdout' = IF r.kind = "emit" THEN Append(stdout, Join("\t", r.item)) ELSE stdout
         /\ exc' = r.exc
         /\ pc' = IF r.kind = "raise" THEN "except" ELSE "loop"
         /\ pos' = IF r.kind = "raise" THEN pos ELSE pos + 1
    /\ UNCHANGED <<filename, output_format, disk, dns_info, records>>

ParseRecord ==
    /\ pc = "loop"
    /\ pos <= Len(RecordsOf(dns_info))
    /\ LET r == ProcessRecord(RecordsOf(dns_info)[pos], dns_info, output_format) IN
         /\ items' = IF r.kind = "emit" THEN AppendItem(items, r.item) ELSE items
         /\ exc' = r.exc
         /\ pc' = IF r.kind = "raise" THEN "except" ELSE "loop"
         /\ pos' = IF r.kind = "raise" THEN pos ELSE pos + 1
    /\ UNCHANGED <<filename, output_format, disk, dns_info, records, stdout>>

\* line 110 and the assignment of line 121
ParseReturn ==
    /\ pc = "loop"
    /\ pos > Len(RecordsOf(dns_info))
    /\ records' = items
    /\ pos' = 1
    /\ pc' = "print"
    /\ UNCHANGED <<filename, output_format, disk, dns_info, items, stdout, exc>>

\* lines 123-124: one iteration of the printing loop
PrintRecord ==
    /\ pc = "print"
    /\ pos <= Len(records)
    /\ stdout' = Append(stdout, Join("\t", records[pos]))
    /\ pos' = pos + 1
    /\ UNCHANGED <<filename, output_format, disk, dns_info, pc, items, records, exc>>

\* the printing loop is exhausted and the script ends
Exit ==
    /\ pc = "print"
    /\ pos > Len(records)
    /\ pc' = "done"
    /\ UNCHANGED <<filename, output_format, disk, dns_info, pos, items, records, stdout, exc>>

\* lines 125-128: the except clause selected for the raised exception
HandleException ==
    /\ pc = "except"
    /\ stdout' = Append(stdout, HandlerMessage(exc, filename))
    /\ pc' = "done"
    /\ UNCHANGED <<filename, output_format, disk, dns_info, pos, items, records, exc>>

Next ==
    \/ OpenFile
    \/ LoadJson
    \/ ParseBegin
    \/ ParseRecord
    \/ ParseReturn
    \/ PrintRecord
    \/ Exit
    \/ HandleException

Spec == Init /\ [][Next]_vars

(***************************************************************************)
(* Vocabulary of the properties.                                           *)
(***************************************************************************)
\* The codes the specification enumerates as the keys of the table.
KnownCodes == {1, 2, 3, 5, 8, 9, 10, 11, 12, 13}

\* dns_info holds the decoded document and parse_dns_info has been entered.
Entered == pc \in {"loop", "except", "print", "done"} /\ exc.line \notin {118, 119}

\* parse_dns_info has returned / has raised.
Returned == pc \in {"print", "done"} /\ exc = NoExc
ParseFailed == pc \in {"except", "done"} /\ exc.line >= 72
ParseOver == Returned \/ ParseFailed

\* What the caller got from the call.
Outcome == [exc |-> exc, items |-> IF exc = NoExc THEN records ELSE <<>>]

RemoveAt(seq, i) == SubSeq(seq, 1, i - 1) \o SubSeq(seq, i + 1, Len(seq))

WithRecords(info, recs) ==
    [info EXCEPT !.Result.CustomHostRecords.Records = recs]

IsInactive(e) == "IsActive" \in DOMAIN e /\ ~e.IsActive
IsActiveEntry(e) == "IsActive" \in DOMAIN e /\ e.IsActive
IsActiveUnknown(e) ==
    IsActiveEntry(e) /\ "RecordType" \in DOMAIN e /\ e.RecordType \notin KnownCodes
IsKept(e) ==
    IsActiveEntry(e) /\ "RecordType" \in DOMAIN e /\ e.RecordType \in KnownCodes

CountIn(recs, n, P(_)) == Cardinality({i \in 1..n : P(recs[i])})

\* The call's outcome is the one the document without entry i would give;
\* when entry i is the only one the call returns the empty list.
SameAsWithout(i) ==
    LET rest == RemoveAt(RecordsOf(dns_info), i) IN
    IF rest = <<>> THEN Outcome = [exc |-> NoExc, items |-> <<>>]
    ELSE Outcome = parse_dns_info(WithRecords(dns_info, rest), output_format)

(***************************************************************************)
(* C1: an entry whose IsActive is false produces no output record, for     *)
(* both formats and whatever its other fields: while the loop runs the     *)
(* number of items never exceeds the number of active entries examined,    *)
(* and the returned list is the one the document without the inactive      *)
(* entry gives, with at most one record per active entry.                  *)
(***************************************************************************)
C1_InactiveExcluded ==
    /\ (pc = "loop") =>
          Len(items) <= CountIn(RecordsOf(dns_info), pos - 1, IsActiveEntry)
    /\ Returned =>
          /\ Len(records) <= CountIn(RecordsOf(dns_info), Len(RecordsOf(dns_info)), IsActiveEntry)
          /\ \A i \in 1..Len(RecordsOf(dns_info)) :
                IsInactive(RecordsOf(dns_info)[i]) => SameAsWithout(i)

C1_Witness ==
    /\ Returned
    /\ Len(records) = 1
    /\ \E i \in 1..Len(RecordsOf(dns_info)) :
          /\ IsInactive(RecordsOf(dns_info)[i])
          /\ "RecordType" \in DOMAIN RecordsOf(dns_info)[i]
          /\ RecordsOf(dns_info)[i].RecordType \in KnownCodes

(***************************************************************************)
(* C2: an active entry whose RecordType is outside the enumerated codes    *)
(* produces no record and is never the entry at which parse_dns_info       *)
(* raises; the outcome of the call is the one the document without that    *)
(* entry gives (the empty list when it is the only entry).                 *)
(***************************************************************************)
C2_UnknownTypeDropped ==
    (Entered /\ HasRecordsPath(dns_info)) =>
       \A i \in 1..Len(RecordsOf(dns_info)) :
          IsActiveUnknown(RecordsOf(dns_info)[i]) =>
             /\ ~(pc = "except" /\ exc.line > 75 /\ pos = i)
             /\ ParseOver => SameAsWithout(i)

C2_Witness ==
    /\ Returned
    /\ Len(records) = 1
    /\ Len(RecordsOf(dns_info)) = 2
    /\ IsActiveUnknown(RecordsOf(dns_info)[1])

(***************************************************************************)
(* C3: the returned list is the input sequence restricted to the active    *)
(* entries of known type, in input order, one record per kept entry, the   *)
(* k-th record built from the k-th kept entry.                             *)
(***************************************************************************)
C3_OrderPreserved ==
    Returned =>
       LET kept == SelectSeq(RecordsOf(dns_info), IsKept) IN
       /\ Len(records) = Len(kept)
       /\ \A k \in 1..Len(kept) :
             records[k] = ProcessRecord(kept[k], dns_info, output_format).item

C3_Witness ==
    /\ Returned
    /\ Len(records) = 2
    /\ records[1] # records[2]
    /\ Len(RecordsOf(dns_info)) > 2

\* The kept entries of the document, in input order.
KeptEntries == SelectSeq(RecordsOf(dns_info), IsKept)

\* The other value of the format selector.
OtherFormat == IF output_format = "default" THEN "cloudflare" ELSE "default"

\* Decimal renderings of the priorities of the explored entries.
DecimalOf == (0 :> "0") @@ (10 :> "10")

(***************************************************************************)
(* C4: the value field of every emitted record follows from the type       *)
(* alone: for MX (code 3) the decimal Priority, one space, Data; for TXT   *)
(* (code 5) Data between two double quotes, inner quotes untouched; for    *)
(* any other known code Data unchanged.  A call with the other format,     *)
(* when it returns, gives the same value fields.                           *)
(***************************************************************************)
ExpectedValue(e) ==
    IF e.RecordType = 3 THEN DecimalOf[e.Priority] \o " " \o e.Data
    ELSE IF e.RecordType = 5 THEN "\"" \o e.Data \o "\""
    ELSE e.Data

C4_ValueByType ==
    Returned =>
       /\ \A k \in 1..Len(records) :
             k <= Len(KeptEntries) => records[k][5] = ExpectedValue(KeptEntries[k])
       /\ LET other == parse_dns_info(dns_info, OtherFormat) IN
          other.exc = NoExc =>
             /\ Len(other.items) = Len(records)
             /\ \A k \in 1..Len(records) : other.items[k][5] = records[k][5]

C4_Witness ==
    /\ Returned
    /\ output_format = "cloudflare"
    /\ Len(records) = 3
    /\ <<records[1][5], records[2][5], records[3][5]>> = <<"10 a.b", "\"a.b\"", "a.b">>

(***************************************************************************)
(* C5: the host field of every emitted record is Host unchanged with       *)
(* format default; with format cloudflare it is the apex DomainName when   *)
(* Host is '@' and Host, a dot, the apex DomainName and a trailing dot     *)
(* otherwise, the apex being the document's one DomainName.                *)
(***************************************************************************)
ExpectedHost(e) ==
    IF output_format = "default" THEN e.Host
    ELSE IF e.Host = "@" THEN dns_info.Result.DomainBasicDetails.DomainName
    ELSE e.Host \o "." \o dns_info.Result.DomainBasicDetails.DomainName \o "."

C5_HostByFormat ==
    Returned =>
       \A k \in 1..Len(records) :
          k <= Len(KeptEntries) => records[k][1] = ExpectedHost(KeptEntries[k])

C5_Witness ==
    /\ Returned
    /\ output_format = "cloudflare"
    /\ Len(records) = 2
    /\ <<records[1][1], records[2][1]>> = <<"example.com", "www.example.com.">>

(***************************************************************************)
(* C6: a document without 'Result', or without 'CustomHostRecords' under   *)
(* it, or without 'Records' under that, makes parse_dns_info raise the     *)
(* structure error for both formats, before any entry is examined, and     *)
(* no record is returned or printed.                                       *)
(***************************************************************************)
LacksPath(doc) ==
    \/ "Result" \notin DOMAIN doc
    \/ "CustomHostRecords" \notin DOMAIN doc.Result
    \/ "Records" \notin DOMAIN doc.Result.CustomHostRecords

C6_StructureError ==
    (Entered /\ LacksPath(dns_info)) =>
       /\ pc \in {"except", "done"}
       /\ exc = [cls |-> "KeyError", arg |-> "JSON is in an unexpected format", line |-> 72]
       /\ items = <<>>
       /\ records = <<>>
       /\ pos = 1
       /\ pc = "done" => stdout = <<"ERROR: 'JSON is in an unexpected format'">>

C6_Witness ==
    /\ pc = "done"
    /\ output_format = "cloudflare"
    /\ "Result" \in DOMAIN dns_info
    /\ "CustomHostRecords" \in DOMAIN dns_info.Result
    /\ LacksPath(dns_info)
    /\ Len(stdout) = 1

(***************************************************************************)
(* C7: parse_dns_info raises the empty-result error exactly when Records   *)
(* is present and has no element; a non-empty Records whose entries are    *)
(* all inactive or of unknown type raises nothing and gives the empty      *)
(* list.                                                                   *)
(***************************************************************************)
AllSkipped(recs) ==
    \A i \in 1..Len(recs) : IsInactive(recs[i]) \/ IsActiveUnknown(recs[i])

C7_EmptyResultError ==
    Entered =>
       /\ (exc.arg = "No DNS records found in JSON")
             <=> (~LacksPath(dns_info) /\ Len(RecordsOf(dns_info)) = 0)
       /\ (exc.arg = "No DNS records found in JSON") => (exc.cls = "Exception" /\ items = <<>>)
       /\ (~LacksPath(dns_info) /\ Len(RecordsOf(dns_info)) > 0 /\ AllSkipped(RecordsOf(dns_info)))
             => /\ exc = NoExc
                /\ items = <<>>
                /\ records = <<>>
                /\ stdout = <<>>

C7_Witness ==
    /\ pc = "done"
    /\ Returned
    /\ Len(RecordsOf(dns_info)) = 2
    /\ IsInactive(RecordsOf(dns_info)[1])
    /\ IsActiveUnknown(RecordsOf(dns_info)[2])
    /\ stdout = <<>>

(***************************************************************************)
(* C8: when the text of the input file is not valid JSON, the message      *)
(* printed is the one that names the input file.                           *)
(***************************************************************************)
C8_DecodeErrorNamesFile ==
    (pc = "done" /\ exc.cls = "JSONDecodeError") =>
       stdout = <<"ERROR: Unable to decode JSON from " \o filename \o ": " \o exc.arg>>

(***************************************************************************)
(* C9: failure of parse_dns_info and record output exclude each other.     *)
(* When it raises, also at a later entry after earlier ones were           *)
(* converted, no record line is printed and exactly one ERROR line is;     *)
(* record lines are printed only after it returned the complete list.      *)
(***************************************************************************)
ErrorLine(e) ==
    IF e.cls = "KeyError" THEN "ERROR: '" \o e.arg \o "'" ELSE "ERROR: " \o e.arg

TabLine(r) == r[1] \o "\t" \o r[2] \o "\t" \o r[3] \o "\t" \o r[4] \o "\t" \o r[5]

C9_NoPartialOutput ==
    /\ ParseFailed =>
          /\ pc = "except" => stdout = <<>>
          /\ pc = "done" => stdout = <<ErrorLine(exc)>>
    /\ (stdout # <<>> /\ ~ParseFailed /\ exc = NoExc) =>
          /\ Returned
          /\ records = items
          /\ Len(records) = Len(KeptEntries)
          /\ Len(stdout) = pos - 1
          /\ \A k \in 1..Len(stdout) : stdout[k] = TabLine(records[k])

C9_Witness ==
    /\ pc = "done"
    /\ ParseFailed
    /\ exc.line > 75
    /\ pos = 3
    /\ Len(items) = 2
    /\ Len(stdout) = 1

(***************************************************************************)
(* C10: DomainName is read only for format cloudflare and only once an     *)
(* entry has passed both filters.  Taking a document without               *)
(* DomainBasicDetails and the same document with it: with format default   *)
(* both give the same outcome; with format cloudflare, where the document  *)
(* with it normalizes, the one without it fails at the domain lookup       *)
(* exactly when some entry is active with a known type, and otherwise      *)
(* returns the empty list.                                                 *)
(***************************************************************************)
WithDomain(doc) ==
    [doc EXCEPT !.Result =
        @ @@ [DomainBasicDetails |-> [DomainName |-> "example.com"]]]

C10_DomainReadLazily ==
    (Entered /\ ParseOver /\ "Result" \in DOMAIN dns_info
        /\ "DomainBasicDetails" \notin DOMAIN dns_info.Result) =>
       LET ref == parse_dns_info(WithDomain(dns_info), output_format) IN
       /\ output_format = "default" => Outcome = ref
       /\ (output_format = "cloudflare" /\ ref.exc = NoExc) =>
             IF \E i \in 1..Len(RecordsOf(dns_info)) : IsKept(RecordsOf(dns_info)[i])
             THEN Outcome = [exc |-> [cls |-> "KeyError", arg |-> "DomainBasicDetails", line |-> 96],
                             items |-> <<>>]
             ELSE Outcome = [exc |-> NoExc, items |-> <<>>]

C10_Witness ==
    /\ pc = "done"
    /\ output_format = "cloudflare"
    /\ "Result" \in DOMAIN dns_info
    /\ "DomainBasicDetails" \notin DOMAIN dns_info.Result
    /\ exc.arg = "DomainBasicDetails"
    /\ pos = 2
    /\ Len(RecordsOf(dns_info)) = 3

====
